---------------------------- MODULE Spec2Model ----------------------------
(***************************************************************************)
(* Model of pydarn.sdio.DataTypes.DataPtr: a reader over a file of         *)
(* time-stamped records with a timestamp -> byte offset index.             *)
(*                                                                         *)
(* A file is a sequence of records of RecLen bytes each; a record carries  *)
(* 'time' (seconds since the Unix epoch) and 'scan'.  Datetimes (sTime,    *)
(* eTime, index keys) are ticks on a calendar whose tick Epoch is          *)
(* 1970-01-01, so utcfromtimestamp is a shift and not the identity.        *)
(* The Python file object and the descriptor share one OS file offset,     *)
(* 'pos' (no json read ever buffers data, see readJson).                   *)
(***************************************************************************)
EXTENDS Integers, Sequences, FiniteSets, TLC

VARIABLES dType, sTime, eTime, file, fd, ptr, pos,
          recordIndex, scanStartIndex, last

vars == <<dType, sTime, eTime, file, fd, ptr, pos,
          recordIndex, scanStartIndex, last>>

\* ---------------------------------------------------------------- bounds
MaxRecs == 2
MaxTime == 2
RecLen  == 2

\* ------------------------------------------------------------- constants
Epoch    == 1
NoneTime == 0 - 1

dataTypeList == {"dmap", "json"}

EpochTimes == 0..MaxTime
Datetimes  == {Epoch + t : t \in EpochTimes}
Records    == [time : EpochTimes, scan : {0, 1}]
Files      == UNION {[1..n -> Records] : n \in 0..MaxRecs}

\* Python's None for a record and for an index dictionary
NoRec     == [time |-> 0 - 1, scan |-> 0 - 1]
NoneIndex == [x \in {0 - 1} |-> 0 - 1]
EmptyDict == [x \in {} |-> 0]

Range(d) == {d[k] : k \in DOMAIN d}

\* d[k] = v on a Python dict
DictSet(d, k, v) == [x \in (DOMAIN d) \cup {k} |-> IF x = k THEN v ELSE d[x]]

utcfromtimestamp(ts) == Epoch + ts

\* ------------------------------------------------------- the dmap codec
FileSize(f) == Len(f) * RecLen
Offsets(f)  == 0..FileSize(f)

\* a dmap record starts at byte p of the file
IsRecStart(f, p) == /\ dType = "dmap"
                    /\ p >= 0
                    /\ p < FileSize(f)
                    /\ p % RecLen = 0

getDmapOffset(p) == p

setDmapOffset(p, offset) == offset

\* the record decoded at byte p, None at end of file or on bytes that are
\* not a dmap record
readDmapRec(f, p) == IF IsRecStart(f, p) THEN f[(p \div RecLen) + 1] ELSE NoRec

\* the file offset after readDmapRec at p; g is where a failed decode of
\* bytes that are not a record leaves the descriptor
afterReadDmapRec(f, p, g) ==
    IF IsRecStart(f, p) THEN p + RecLen
    ELSE IF p >= FileSize(f) THEN p
    ELSE g

\* the offsets at which a decode that fails at byte p can leave the descriptor
Garbage(f, p) == IF IsRecStart(f, p) \/ p >= FileSize(f) THEN {p} ELSE p..FileSize(f)

\* ------------------------------------------------- outcome of one call
\* pos0: the file offset before the call; idx0: an index was stored before it.
\* kind: "rec" a record was returned (val = the offset it starts at),
\*       "ret" another value was returned (val), "none" None was returned,
\*       "raise" the call raised an exception.
Call(op, off, force, kind, val, codecs) ==
    [op |-> op, off |-> off, force |-> force, pos0 |-> pos,
     idx0 |-> recordIndex # NoneIndex, kind |-> kind, val |-> val, codecs |-> codecs]

NoCall == [op |-> "init", off |-> 0, force |-> FALSE, pos0 |-> 0,
           idx0 |-> FALSE, kind |-> "none", val |-> 0, codecs |-> {}]

IsOpen == ptr = "open"

\* ------------------------------------------------------ DataPtr.__init__
\* the dataType arguments a caller passes: the supported ones and one more
RequestedTypes == dataTypeList \cup {"hdf5"}

\* Mutant of initOutcome: the assert on dataType is missing.
initOutcomeNoAssert(dataType) == NoCall

\* the asserts of __init__: construction raises unless dataType is a key of
\* the method dictionaries (sTime and eTime are drawn as datetimes or None,
\* so their asserts pass); the window itself is not examined
initOutcome(dataType) ==
    IF dataType \in dataTypeList THEN NoCall
    ELSE [NoCall EXCEPT !.kind = "raise"]

\* __init__ returned: there is a Reader to call methods on
Constructed == ~(last.op = "init" /\ last.kind = "raise")

Init == /\ dType \in RequestedTypes
        /\ sTime \in Datetimes
        /\ eTime \in Datetimes \cup {NoneTime}
        /\ file \in Files
        /\ recordIndex = NoneIndex
        /\ scanStartIndex = NoneIndex
        /\ fd = FALSE
        /\ ptr = "None"
        /\ pos = 0
        /\ last = initOutcome(dType)

\* --------------------------------------------------- DataPtr.open / close
open == /\ Constructed
        /\ fd' = TRUE
        /\ ptr' = "open"
        /\ pos' = 0
        /\ last' = Call("open", 0, FALSE, "none", 0, {})
        /\ UNCHANGED <<dType, sTime, eTime, file, recordIndex, scanStartIndex>>

\* Mutant of close: the test of _ptr against None is missing, so close on
\* a Reader that was never opened raises.
closeNoGuard ==
    /\ Constructed
    /\ IF ptr # "None"
       THEN ptr' = "closed" /\ fd' = FALSE /\ pos' = 0
       ELSE UNCHANGED <<ptr, fd, pos>>
    /\ last' = Call("close", 0, FALSE,
                    IF ptr = "None" THEN "raise" ELSE "none", 0, {})
    /\ UNCHANGED <<dType, sTime, eTime, file, recordIndex, scanStartIndex>>

close == /\ Constructed
         /\ IF ptr # "None"
            THEN ptr' = "closed" /\ fd' = FALSE /\ pos' = 0
            ELSE UNCHANGED <<ptr, fd, pos>>
         /\ last' = Call("close", 0, FALSE, "none", 0, {})
         /\ UNCHANGED <<dType, sTime, eTime, file, recordIndex, scanStartIndex>>

\* ------------------------------------------------------------------ DMAP
\* Mutant of createIndexDmapLoop: the offset is taken after the record is
\* read, not before.
RECURSIVE createIndexDmapLoopOffsetAfter(_, _, _, _, _)
createIndexDmapLoopOffsetAfter(f, p, g, recordDict, scanStartDict) ==
    LET dfile  == readDmapRec(f, p)
        q      == afterReadDmapRec(f, p, g)
        offset == getDmapOffset(q)
    IN  IF dfile = NoRec
        THEN [kind |-> "break", pos |-> q,
              recordDict |-> recordDict, scanStartDict |-> scanStartDict]
        ELSE LET rectime == utcfromtimestamp(dfile.time) IN
             IF rectime >= sTime
             THEN IF eTime = NoneTime
                  THEN [kind |-> "raise", pos |-> q,
                        recordDict |-> recordDict, scanStartDict |-> scanStartDict]
                  ELSE IF rectime <= eTime
                       THEN createIndexDmapLoopOffsetAfter(f, q, g,
                                DictSet(recordDict, rectime, offset),
                                IF dfile.scan = 1
                                THEN DictSet(scanStartDict, rectime, offset)
                                ELSE scanStartDict)
                       ELSE createIndexDmapLoopOffsetAfter(f, q, g,
                                recordDict, scanStartDict)
             ELSE createIndexDmapLoopOffsetAfter(f, q, g, recordDict, scanStartDict)

\* Mutant of createIndexDmapLoop: a timestamp that is already a key keeps
\* its first offset.
RECURSIVE createIndexDmapLoopFirstWins(_, _, _, _, _)
createIndexDmapLoopFirstWins(f, p, g, recordDict, scanStartDict) ==
    LET offset == getDmapOffset(p)
        dfile  == readDmapRec(f, p)
        q      == afterReadDmapRec(f, p, g)
    IN  IF dfile = NoRec
        THEN [kind |-> "break", pos |-> q,
              recordDict |-> recordDict, scanStartDict |-> scanStartDict]
        ELSE LET rectime == utcfromtimestamp(dfile.time) IN
             IF rectime >= sTime
             THEN IF eTime = NoneTime
                  THEN [kind |-> "raise", pos |-> q,
                        recordDict |-> recordDict, scanStartDict |-> scanStartDict]
                  ELSE IF rectime <= eTime /\ rectime \notin DOMAIN recordDict
                       THEN createIndexDmapLoopFirstWins(f, q, g,
                                DictSet(recordDict, rectime, offset),
                                IF dfile.scan = 1
                                THEN DictSet(scanStartDict, rectime, offset)
                                ELSE scanStartDict)
                       ELSE createIndexDmapLoopFirstWins(f, q, g,
                                recordDict, scanStartDict)
             ELSE createIndexDmapLoopFirstWins(f, q, g, recordDict, scanStartDict)

\* The while loop of __createIndexDmap from offset p on: "break" with the two
\* dictionaries at end of data, or "raise" when a record time is compared
\* with eTime = None.
RECURSIVE createIndexDmapLoop(_, _, _, _, _)
createIndexDmapLoop(f, p, g, recordDict, scanStartDict) ==
    LET offset == getDmapOffset(p)
        dfile  == readDmapRec(f, p)
        q      == afterReadDmapRec(f, p, g)
    IN  IF dfile = NoRec
        THEN [kind |-> "break", pos |-> q,
              recordDict |-> recordDict, scanStartDict |-> scanStartDict]
        ELSE LET rectime == utcfromtimestamp(dfile.time) IN
             IF rectime >= sTime
             THEN IF eTime = NoneTime
                  THEN [kind |-> "raise", pos |-> q,
                        recordDict |-> recordDict, scanStartDict |-> scanStartDict]
                  ELSE IF rectime <= eTime
                       THEN createIndexDmapLoop(f, q, g,
                                DictSet(recordDict, rectime, offset),
                                IF dfile.scan = 1
                                THEN DictSet(scanStartDict, rectime, offset)
                                ELSE scanStartDict)
                       ELSE createIndexDmapLoop(f, q, g, recordDict, scanStartDict)
             ELSE createIndexDmapLoop(f, q, g, recordDict, scanStartDict)

\* where the scan of __createIndexDmap starts: __rewindDmap
rewindDmapTarget == 0

\* Mutant of offsetSeekDmapPos: the offset is looked up among the keys of
\* the index, not among its values.
offsetSeekDmapPosInKeys(p, offset, force, rI) ==
    IF force THEN setDmapOffset(p, offset)
    ELSE IF offset \in DOMAIN rI THEN setDmapOffset(p, offset)
    ELSE getDmapOffset(p)

\* __offsetSeekDmap with an index rI stored: the resulting file offset
offsetSeekDmapPos(p, offset, force, rI) ==
    IF force THEN setDmapOffset(p, offset)
    ELSE IF offset \in Range(rI) THEN setDmapOffset(p, offset)
    ELSE getDmapOffset(p)

\* the seek by which __createIndexDmap goes back to starting_offset
createIndexDmapRestore(p, starting_offset, rI) ==
    offsetSeekDmapPos(p, starting_offset, FALSE, rI)

\* Mutant of createIndexDmap: the scan starts at the current offset, the
\* rewind is missing.
createIndexDmapNoRewind(f, p, g, rI, sI) ==
    IF ~fd
    THEN [kind |-> "raise", pos |-> p, recordIndex |-> rI, scanStartIndex |-> sI]
    ELSE LET starting_offset == getDmapOffset(p)
             r == createIndexDmapLoop(f, p, g, EmptyDict, EmptyDict)
         IN  IF r.kind = "raise"
             THEN [kind |-> "raise", pos |-> r.pos,
                   recordIndex |-> rI, scanStartIndex |-> sI]
             ELSE [kind |-> "ret",
                   pos |-> createIndexDmapRestore(r.pos, starting_offset, r.recordDict),
                   recordIndex |-> r.recordDict,
                   scanStartIndex |-> r.scanStartDict]

\* __createIndexDmap on the descriptor at offset p: the outcome, the offset
\* it leaves and the two dictionaries it stores
createIndexDmap(f, p, g, rI, sI) ==
    IF ~fd
    THEN [kind |-> "raise", pos |-> p, recordIndex |-> rI, scanStartIndex |-> sI]
    ELSE LET starting_offset == getDmapOffset(p)
             r == createIndexDmapLoop(f, setDmapOffset(p, rewindDmapTarget), g,
                                      EmptyDict, EmptyDict)
         IN  IF r.kind = "raise"
             THEN [kind |-> "raise", pos |-> r.pos,
                   recordIndex |-> rI, scanStartIndex |-> sI]
             ELSE [kind |-> "ret",
                   pos |-> createIndexDmapRestore(r.pos, starting_offset, r.recordDict),
                   recordIndex |-> r.recordDict,
                   scanStartIndex |-> r.scanStartDict]

\* Mutant of readDmapLoop: a record later than eTime does not end the
\* stream, it is skipped like a record earlier than sTime.
RECURSIVE readDmapLoopNoEnd(_, _, _)
readDmapLoopNoEnd(f, p, g) ==
    LET offset == getDmapOffset(p)
        dfile  == readDmapRec(f, p)
        q      == afterReadDmapRec(f, p, g)
    IN  IF dfile = NoRec
        THEN [kind |-> "none", val |-> 0, pos |-> q]
        ELSE LET rectime == utcfromtimestamp(dfile.time) IN
             IF eTime = NoneTime
             THEN [kind |-> "raise", val |-> 0, pos |-> q]
             ELSE IF rectime >= sTime /\ rectime <= eTime
                  THEN [kind |-> "rec", val |-> offset, pos |-> q]
                  ELSE readDmapLoopNoEnd(f, q, g)

\* Mutant of readDmapLoop: a record whose time equals sTime is skipped (the
\* lower comparison is strict).
RECURSIVE readDmapLoopStrictStart(_, _, _)
readDmapLoopStrictStart(f, p, g) ==
    LET offset == getDmapOffset(p)
        dfile  == readDmapRec(f, p)
        q      == afterReadDmapRec(f, p, g)
    IN  IF dfile = NoRec
        THEN [kind |-> "none", val |-> 0, pos |-> q]
        ELSE LET rectime == utcfromtimestamp(dfile.time) IN
             IF eTime = NoneTime
             THEN [kind |-> "raise", val |-> 0, pos |-> q]
             ELSE IF rectime > eTime
                  THEN [kind |-> "none", val |-> 0, pos |-> q]
                  ELSE IF rectime > sTime /\ rectime <= eTime
                       THEN [kind |-> "rec", val |-> offset, pos |-> q]
                       ELSE readDmapLoopStrictStart(f, q, g)

\* Mutant of readDmapLoop: a record later than eTime is put back (the file
\* is set to the offset the record starts at) before None is returned.
RECURSIVE readDmapLoopPutBack(_, _, _)
readDmapLoopPutBack(f, p, g) ==
    LET offset == getDmapOffset(p)
        dfile  == readDmapRec(f, p)
        q      == afterReadDmapRec(f, p, g)
    IN  IF dfile = NoRec
        THEN [kind |-> "none", val |-> 0, pos |-> q]
        ELSE LET rectime == utcfromtimestamp(dfile.time) IN
             IF eTime = NoneTime
             THEN [kind |-> "raise", val |-> 0, pos |-> q]
             ELSE IF rectime > eTime
                  THEN [kind |-> "none", val |-> 0, pos |-> setDmapOffset(q, offset)]
                  ELSE IF rectime >= sTime /\ rectime <= eTime
                       THEN [kind |-> "rec", val |-> offset, pos |-> q]
                       ELSE readDmapLoopPutBack(f, q, g)

\* The while loop of __readDmap from offset p on
RECURSIVE readDmapLoop(_, _, _)
readDmapLoop(f, p, g) ==
    LET offset == getDmapOffset(p)
        dfile  == readDmapRec(f, p)
        q      == afterReadDmapRec(f, p, g)
    IN  IF dfile = NoRec
        THEN [kind |-> "none", val |-> 0, pos |-> q]
        ELSE LET rectime == utcfromtimestamp(dfile.time) IN
             IF eTime = NoneTime
             THEN [kind |-> "raise", val |-> 0, pos |-> q]
             ELSE IF rectime > eTime
                  THEN [kind |-> "none", val |-> 0, pos |-> q]
                  ELSE IF rectime >= sTime /\ rectime <= eTime
                       THEN [kind |-> "rec", val |-> offset, pos |-> q]
                       ELSE readDmapLoop(f, q, g)

\* Mutant of readDmap: the checks of _ptr are missing.
readDmapNoCheck(f, p, g) == readDmapLoop(f, p, g)

readDmap(f, p, g) ==
    IF ptr = "None" \/ ptr = "closed"
    THEN [kind |-> "none", val |-> 0, pos |-> p]
    ELSE readDmapLoop(f, p, g)


\* Mutant of offsetSeekDmap: a missing index is built before force is
\* looked at.
offsetSeekDmapBuildsFirst(f, p, g, offset, force, rI, sI) ==
    IF ~fd
    THEN [kind |-> "raise", val |-> 0, pos |-> p,
          recordIndex |-> rI, scanStartIndex |-> sI]
    ELSE LET c == IF rI = NoneIndex
                  THEN createIndexDmap(f, p, g, rI, sI)
                  ELSE [kind |-> "ret", pos |-> p,
                        recordIndex |-> rI, scanStartIndex |-> sI]
         IN  IF c.kind = "raise"
             THEN [kind |-> "raise", val |-> 0, pos |-> c.pos,
                   recordIndex |-> c.recordIndex,
                   scanStartIndex |-> c.scanStartIndex]
             ELSE LET q == offsetSeekDmapPos(c.pos, offset, force, c.recordIndex)
                  IN  [kind |-> "ret", val |-> q, pos |-> q,
                       recordIndex |-> c.recordIndex,
                       scanStartIndex |-> c.scanStartIndex]

\* __offsetSeekDmap: the outcome, the resulting offset and the stored index
offsetSeekDmap(f, p, g, offset, force, rI, sI) ==
    IF ~fd
    THEN [kind |-> "raise", val |-> 0, pos |-> p,
          recordIndex |-> rI, scanStartIndex |-> sI]
    ELSE IF force
    THEN [kind |-> "ret", val |-> setDmapOffset(p, offset),
          pos |-> setDmapOffset(p, offset),
          recordIndex |-> rI, scanStartIndex |-> sI]
    ELSE LET c == IF rI = NoneIndex
                  THEN createIndexDmap(f, p, g, rI, sI)
                  ELSE [kind |-> "ret", pos |-> p,
                        recordIndex |-> rI, scanStartIndex |-> sI]
         IN  IF c.kind = "raise"
             THEN [kind |-> "raise", val |-> 0, pos |-> c.pos,
                   recordIndex |-> c.recordIndex,
                   scanStartIndex |-> c.scanStartIndex]
             ELSE LET q == offsetSeekDmapPos(c.pos, offset, FALSE, c.recordIndex)
                  IN  [kind |-> "ret", val |-> q, pos |-> q,
                       recordIndex |-> c.recordIndex,
                       scanStartIndex |-> c.scanStartIndex]

offsetTellDmap(p) ==
    IF fd THEN [kind |-> "ret", val |-> getDmapOffset(p)]
    ELSE [kind |-> "raise", val |-> 0]

\* Mutant of rewindDmap: the seek goes to the current offset.
rewindDmapStay(p) ==
    IF fd THEN [kind |-> "ret", val |-> setDmapOffset(p, getDmapOffset(p)),
                pos |-> setDmapOffset(p, getDmapOffset(p))]
    ELSE [kind |-> "raise", val |-> 0, pos |-> p]

rewindDmap(p) ==
    IF fd THEN [kind |-> "ret", val |-> setDmapOffset(p, rewindDmapTarget),
                pos |-> setDmapOffset(p, rewindDmapTarget)]
    ELSE [kind |-> "raise", val |-> 0, pos |-> p]

\* ------------------------------------------------------------------ JSON
\* __read_json_rec reads from the name f, which nothing binds: it raises
\* before a line of the stream is consumed.
read_json_rec(f, p) == [kind |-> "raise", rec |-> NoRec, pos |-> p]

\* __readJson calls __read_json_rec with an argument it does not take
readJson(f, p) ==
    IF ptr = "None" \/ ptr = "closed"
    THEN [kind |-> "none", val |-> 0, pos |-> p]
    ELSE [kind |-> "raise", val |-> 0, pos |-> p]

rewindJsonTarget == 0

\* __createIndexJson: tell, seek(0), then the first __read_json_rec raises
createIndexJson(f, p, rI, sI) ==
    IF ptr # "open"
    THEN [kind |-> "raise", pos |-> p, recordIndex |-> rI, scanStartIndex |-> sI]
    ELSE LET jfile == read_json_rec(f, rewindJsonTarget)
         IN  [kind |-> jfile.kind, pos |-> jfile.pos,
              recordIndex |-> rI, scanStartIndex |-> sI]

\* the index builder __offsetSeekJson calls when no index is stored
offsetSeekJsonBuilder == "dmap"

\* __offsetSeekJson; file.seek returns None
offsetSeekJson(f, p, g, offset, force, rI, sI) ==
    IF force
    THEN IF ptr = "open"
         THEN [kind |-> "none", val |-> 0, pos |-> offset,
               recordIndex |-> rI, scanStartIndex |-> sI]
         ELSE [kind |-> "raise", val |-> 0, pos |-> p,
               recordIndex |-> rI, scanStartIndex |-> sI]
    ELSE LET c == IF rI = NoneIndex
                  THEN IF offsetSeekJsonBuilder = "dmap"
                       THEN createIndexDmap(f, p, g, rI, sI)
                       ELSE createIndexJson(f, p, rI, sI)
                  ELSE [kind |-> "ret", pos |-> p,
                        recordIndex |-> rI, scanStartIndex |-> sI]
         IN  IF c.kind = "raise" \/ ptr # "open"
             THEN [kind |-> "raise", val |-> 0, pos |-> c.pos,
                   recordIndex |-> c.recordIndex,
                   scanStartIndex |-> c.scanStartIndex]
             ELSE IF offset \in Range(c.recordIndex)
             THEN [kind |-> "none", val |-> 0, pos |-> offset,
                   recordIndex |-> c.recordIndex,
                   scanStartIndex |-> c.scanStartIndex]
             ELSE [kind |-> "ret", val |-> c.pos, pos |-> c.pos,
                   recordIndex |-> c.recordIndex,
                   scanStartIndex |-> c.scanStartIndex]

\* the codecs whose operations one offsetSeek call uses
offsetSeekCodecs(force, rI) ==
    IF dType = "json"
    THEN IF ~force /\ rI = NoneIndex THEN {"json", offsetSeekJsonBuilder} ELSE {"json"}
    ELSE {"dmap"}

offsetTellJson(p) ==
    IF ptr = "open" THEN [kind |-> "ret", val |-> p]
    ELSE [kind |-> "raise", val |-> 0]

\* __rewindJson returns True (1), or False (0) when the seek raised
rewindJson(p) ==
    IF ptr = "open" THEN [kind |-> "ret", val |-> 1, pos |-> rewindJsonTarget]
    ELSE [kind |-> "ret", val |-> 0, pos |-> p]

\* ------------------------------------- the five methods bound in __init__
read ==
    \E g \in Garbage(file, pos) :
      LET r == IF dType = "dmap" THEN readDmap(file, pos, g) ELSE readJson(file, pos)
      IN  /\ Constructed
          /\ pos' = r.pos
          /\ last' = Call("read", 0, FALSE, r.kind, r.val, {dType})
          /\ UNCHANGED <<dType, sTime, eTime, file, fd, ptr,
                         recordIndex, scanStartIndex>>

createIndex ==
    LET c == IF dType = "dmap"
             THEN createIndexDmap(file, pos, pos, recordIndex, scanStartIndex)
             ELSE createIndexJson(file, pos, recordIndex, scanStartIndex)
    IN  /\ Constructed
        /\ pos' = c.pos
        /\ recordIndex' = c.recordIndex
        /\ scanStartIndex' = c.scanStartIndex
        /\ last' = Call("createIndex", 0, FALSE, c.kind, 0, {dType})
        /\ UNCHANGED <<dType, sTime, eTime, file, fd, ptr>>

offsetSeek ==
    \E offset \in Offsets(file), force \in BOOLEAN :
    \E g \in IF ~force /\ recordIndex = NoneIndex
             THEN Garbage(file, rewindDmapTarget) ELSE {pos} :
      LET r == IF dType = "dmap"
               THEN offsetSeekDmap(file, pos, g, offset, force,
                                   recordIndex, scanStartIndex)
               ELSE offsetSeekJson(file, pos, g, offset, force,
                                   recordIndex, scanStartIndex)
      IN  /\ Constructed
          /\ pos' = r.pos
          /\ recordIndex' = r.recordIndex
          /\ scanStartIndex' = r.scanStartIndex
          /\ last' = Call("offsetSeek", offset, force, r.kind, r.val,
                          offsetSeekCodecs(force, recordIndex))
          /\ UNCHANGED <<dType, sTime, eTime, file, fd, ptr>>

offsetTell ==
    LET r == IF dType = "dmap" THEN offsetTellDmap(pos) ELSE offsetTellJson(pos)
    IN  /\ Constructed
        /\ last' = Call("offsetTell", 0, FALSE, r.kind, r.val, {dType})
        /\ UNCHANGED <<dType, sTime, eTime, file, fd, ptr, pos,
                       recordIndex, scanStartIndex>>

rewind ==
    LET r == IF dType = "dmap" THEN rewindDmap(pos) ELSE rewindJson(pos)
    IN  /\ Constructed
        /\ pos' = r.pos
        /\ last' = Call("rewind", 0, FALSE, r.kind, r.val, {dType})
        /\ UNCHANGED <<dType, sTime, eTime, file, fd, ptr,
                       recordIndex, scanStartIndex>>

Next == \/ open
        \/ close
        \/ read
        \/ createIndex
        \/ offsetSeek
        \/ offsetTell
        \/ rewind

Spec == Init /\ [][Next]_vars

\* ------------------------- Readers over files written in time order
ScenarioRecs == 3

\* record times are distinct and non-decreasing
Increasing(f) == \A i \in 1..(Len(f) - 1) : f[i].time < f[i + 1].time

SortedFiles ==
    {f \in UNION {[1..n -> Records] : n \in 0..ScenarioRecs} : Increasing(f)}

InitSorted == /\ dType \in RequestedTypes
              /\ sTime \in Datetimes
              /\ eTime \in Datetimes \cup {NoneTime}
              /\ file \in SortedFiles
              /\ recordIndex = NoneIndex
              /\ scanStartIndex = NoneIndex
              /\ fd = FALSE
              /\ ptr = "None"
              /\ pos = 0
              /\ last = initOutcome(dType)

SpecSorted == InitSorted /\ [][Next]_vars


\* ===================================================================== 
\* Properties
\* =====================================================================
\* the datetime of the record that starts at byte o
TimeAt(o) == utcfromtimestamp(readDmapRec(file, o).time)

\* the offsets in p..q-1 at which a record starts
RecStarts(p, q) == {o \in Offsets(file) : p <= o /\ o < q /\ IsRecStart(file, o)}

Bounded == eTime # NoneTime

Max(S) == CHOOSE x \in S : \A y \in S : y <= x

\* C1: with a window [sTime, eTime], a record that read returns lies in the
\* window and every record read passed over before it is earlier than sTime
\* and not later than eTime; when read on an open dmap file returns None it
\* stopped at end of data or right after the first record later than eTime,
\* having passed only records earlier than sTime.
C1_ReadWithinWindow ==
    (last.op = "read" /\ Bounded) =>
      /\ last.kind = "rec" =>
            /\ IsRecStart(file, last.val)
            /\ sTime <= TimeAt(last.val) /\ TimeAt(last.val) <= eTime
            /\ last.pos0 <= last.val
            /\ \A o \in RecStarts(last.pos0, last.val) :
                  TimeAt(o) < sTime /\ TimeAt(o) <= eTime
      /\ (dType = "dmap" /\ IsOpen) =>
            /\ last.kind \in {"rec", "none"}
            /\ last.kind = "none" =>
                 \/ ~IsRecStart(file, last.pos0)
                 \/ /\ pos = FileSize(file)
                    /\ \A o \in RecStarts(last.pos0, pos) :
                          TimeAt(o) < sTime /\ TimeAt(o) <= eTime
                 \/ /\ IsRecStart(file, pos - RecLen)
                    /\ TimeAt(pos - RecLen) > eTime
                    /\ \A o \in RecStarts(last.pos0, pos - RecLen) :
                          TimeAt(o) < sTime /\ TimeAt(o) <= eTime

\* a read skipped a record earlier than sTime and ended the stream at a
\* record later than eTime
C1_Witness ==
    /\ last.op = "read" /\ Bounded /\ dType = "dmap" /\ IsOpen
    /\ last.kind = "none"
    /\ last.pos0 = 0 /\ pos = 2 * RecLen
    /\ TimeAt(0) < sTime
    /\ TimeAt(RecLen) > eTime

\* C2: with an index stored, a non-forced offsetSeek to an offset o of the
\* value set of recordIndex returns o and leaves the file at o, offsetTell
\* then gives o, and a read from an indexed offset o returns the record that
\* starts at o, whose timestamp is a key that recordIndex maps to o.
C2_RoundTrip ==
    [][ /\ ( /\ IsOpen /\ recordIndex # NoneIndex
             /\ last'.op = "offsetSeek" /\ ~last'.force
             /\ last'.off \in Range(recordIndex) )
           => /\ last'.kind = "ret" /\ last'.val = last'.off
              /\ pos' = last'.off
              /\ recordIndex' = recordIndex
        /\ ( /\ IsOpen /\ recordIndex # NoneIndex
             /\ last.op = "offsetSeek" /\ ~last.force
             /\ last.off \in Range(recordIndex)
             /\ last'.op = "offsetTell" )
           => last'.kind = "ret" /\ last'.val = last.off
        /\ ( /\ IsOpen /\ recordIndex # NoneIndex
             /\ pos \in Range(recordIndex)
             /\ last'.op = "read" )
           => /\ last'.kind = "rec" /\ last'.val = pos
              /\ TimeAt(pos) \in DOMAIN recordIndex
              /\ recordIndex[TimeAt(pos)] = pos
      ]_vars

\* a non-forced seek moved the file to an indexed offset
C2_Witness ==
    /\ IsOpen /\ recordIndex # NoneIndex
    /\ last.op = "offsetSeek" /\ ~last.force /\ last.idx0
    /\ last.off \in Range(recordIndex)
    /\ last.pos0 # last.off
    /\ pos = last.off
    /\ last.off > 0

\* C3: a non-forced offsetSeek on an open Reader to an offset that is not in
\* the value set of the index returns the offset the file had before the
\* call and leaves the file at that offset.
C3_Refusal ==
    ( /\ IsOpen /\ last.op = "offsetSeek" /\ ~last.force
      /\ last.kind # "raise"
      /\ last.off \notin Range(recordIndex) )
    => /\ last.kind = "ret"
       /\ last.val = last.pos0
       /\ pos = last.pos0

\* C4: createIndex leaves the file offset where it was before the call.
C4_CreateIndexPreservesCursor ==
    (last.op = "createIndex" /\ last.kind = "ret") => pos = last.pos0

\* the offsets of the records of a dmap file whose time is in the window
InWindow == {o \in RecStarts(0, FileSize(file)) :
                Bounded /\ sTime <= TimeAt(o) /\ TimeAt(o) <= eTime}

\* the index the file and the window determine: every in-window timestamp,
\* mapped to the last offset that carries it
ExpectedIndex ==
    [t \in {TimeAt(o) : o \in InWindow} |->
        Max({o \in InWindow : TimeAt(o) = t})]

ScanStarts == {o \in InWindow : readDmapRec(file, o).scan = 1}

ExpectedScanStarts ==
    [t \in {TimeAt(o) : o \in ScanStarts} |->
        Max({o \in ScanStarts : TimeAt(o) = t})]

\* C5: the index that a createIndex call stores is the one the file content
\* and the window determine, whatever index was stored before and wherever
\* the file offset was; so two calls in a row store identical maps.
C5_CreateIndexIdempotent ==
    (last.op = "createIndex" /\ last.kind = "ret") =>
       /\ recordIndex = ExpectedIndex
       /\ scanStartIndex = ExpectedScanStarts

\* createIndex ran from a non-zero offset over a stored index and stored a
\* non-empty index
C5_Witness ==
    /\ last.op = "createIndex" /\ last.kind = "ret"
    /\ last.idx0 /\ last.pos0 > 0
    /\ recordIndex # EmptyDict
    /\ Cardinality(InWindow) < Len(file)

\* C6: every key of a stored recordIndex is a timestamp of the window, and
\* its value is an offset at which a record with that timestamp starts.
C6_IndexWithinWindow ==
    recordIndex # NoneIndex =>
       \A t \in DOMAIN recordIndex :
          /\ Bounded
          /\ sTime <= t /\ t <= eTime
          /\ IsRecStart(file, recordIndex[t])
          /\ TimeAt(recordIndex[t]) = t

\* an index with an entry, over a file that also has a record outside the
\* window
C6_Witness ==
    /\ recordIndex # NoneIndex
    /\ DOMAIN recordIndex # {}
    /\ \E o \in RecStarts(0, FileSize(file)) : TimeAt(o) > eTime
    /\ \E t \in DOMAIN recordIndex : recordIndex[t] > 0

\* C7: every key of a stored scanStartIndex is a key of recordIndex, with
\* the same offset in both.
C7_ScanStartsSubMap ==
    (recordIndex # NoneIndex /\ scanStartIndex # NoneIndex) =>
       \A t \in DOMAIN scanStartIndex :
          /\ t \in DOMAIN recordIndex
          /\ scanStartIndex[t] = recordIndex[t]

\* C8: on an open Reader, offsetTell right after rewind returns 0.
C8_RewindThenTell ==
    [][ (IsOpen /\ last.op = "rewind" /\ last'.op = "offsetTell")
          => (last'.kind = "ret" /\ last'.val = 0) ]_vars

\* rewind brought an open file back from a non-zero offset
C8_Witness ==
    /\ IsOpen /\ last.op = "rewind" /\ last.kind = "ret"
    /\ last.pos0 > 0
    /\ pos = 0

\* C9: every call on an open Reader uses the codec operations of the
\* Reader's own format only.
C9_FormatDispatchFixed == IsOpen => last.codecs \subseteq {dType}

\* C10: on an open dmap Reader with eTime = None, read and createIndex do
\* not raise: read returns the first record at or after sTime, and
\* createIndex indexes every record at or after sTime.
C10_UnboundedWindow ==
    ( /\ eTime = NoneTime /\ dType = "dmap" /\ IsOpen
      /\ last.op \in {"read", "createIndex"} )
    => /\ last.kind # "raise"
       /\ last.op = "createIndex" =>
             DOMAIN recordIndex =
                {TimeAt(o) : o \in {x \in RecStarts(0, FileSize(file)) :
                                       sTime <= TimeAt(x)}}


Min(S) == CHOOSE x \in S : \A y \in S : x <= y

\* the file of the scenario: three records at increasing times with scan
\* flags 1, 0, 1, the first two in the window and the third after it
IsScenario ==
    /\ Len(file) = 3
    /\ file[1].scan = 1 /\ file[2].scan = 0 /\ file[3].scan = 1
    /\ sTime = utcfromtimestamp(file[1].time)
    /\ eTime = utcfromtimestamp(file[2].time)

\* C11: on an open dmap Reader over a file with distinct non-decreasing
\* times, with an index built, a read from a record boundary returns the
\* indexed record of least offset at or after the cursor and stops right
\* after it, and returns None when no indexed record is left; so reads from
\* 0 yield the indexed records in offset order, then end-of-stream.  In the
\* scenario recordIndex has 2 entries and scanStartIndex the first one only.
C11_SequentialReadMatchesIndex ==
    /\ ( /\ last.op = "read" /\ dType = "dmap" /\ IsOpen /\ Bounded
         /\ recordIndex # NoneIndex
         /\ last.pos0 % RecLen = 0 )
       => LET left == {o \in Range(recordIndex) : o >= last.pos0}
          IN  IF left # {}
              THEN /\ last.kind = "rec"
                   /\ last.val = Min(left)
                   /\ pos = last.val + RecLen
              ELSE last.kind = "none"
    /\ (IsScenario /\ dType = "dmap" /\ recordIndex # NoneIndex)
       => /\ Cardinality(DOMAIN recordIndex) = 2
          /\ Range(recordIndex) = {0, RecLen}
          /\ DOMAIN scanStartIndex = {sTime}
          /\ scanStartIndex[sTime] = 0

\* in the scenario, with the index built, the read after the second record
\* ended the stream at the third
C11_Witness ==
    /\ IsScenario /\ dType = "dmap" /\ IsOpen
    /\ recordIndex # NoneIndex
    /\ last.op = "read" /\ last.kind = "none"
    /\ last.pos0 = 2 * RecLen
    /\ pos = 3 * RecLen


\* C12: every constructed Reader with both bounds set has sTime <= eTime
\* (construction with sTime > eTime fails).
C12_InvalidWindowRejected ==
    (Constructed /\ Bounded) => sTime <= eTime

\* C13: open on a Reader that holds an open file is rejected and leaves the
\* handle and its offset as they were.
C13_DoubleOpenRejected ==
    [][ (IsOpen /\ last'.op = "open")
          => /\ last'.kind = "raise"
             /\ ptr' = ptr /\ fd' = fd /\ pos' = pos ]_vars

\* C14: close never raises and leaves no open handle; on a Reader that
\* holds no open handle (never opened, or closed before) it changes
\* nothing, and it never touches the stored index.
C14_CloseReleases ==
    [][ last'.op = "close"
          => /\ last'.kind = "none"
             /\ ~fd' /\ ptr' # "open"
             /\ ptr = "open" => ptr' = "closed"
             /\ ptr # "open" => (ptr' = ptr /\ fd' = fd /\ pos' = pos)
             /\ recordIndex' = recordIndex
             /\ scanStartIndex' = scanStartIndex ]_vars

\* close released a file that had been read from
C14_Witness ==
    /\ last.op = "close" /\ last.kind = "none"
    /\ last.pos0 > 0
    /\ ptr = "closed" /\ ~fd


Methods == {"read", "createIndex", "offsetSeek", "offsetTell", "rewind"}

\* C15: a method called on a Reader whose file is not open returns neither
\* a record nor an offset (it returns None, raises, or rewind reports
\* failure), and leaves the file offset and the stored index unchanged.
C15_NotOpen ==
    [][ (~IsOpen /\ last'.op \in Methods)
          => /\ last'.kind # "rec"
             /\ last'.kind = "ret" => (last'.op = "rewind" /\ last'.val = 0)
             /\ last'.op = "read" => last'.kind = "none"
             /\ pos' = pos
             /\ recordIndex' = recordIndex
             /\ scanStartIndex' = scanStartIndex ]_vars

\* read was called on a closed Reader whose file starts with a record of
\* the window and whose index is stored
C15_Witness ==
    /\ ptr = "closed"
    /\ last.op = "read" /\ last.kind = "none"
    /\ recordIndex # NoneIndex
    /\ 0 \in InWindow


\* C16: construction with a dataType that is not supported raises and no
\* method ever runs on such a Reader; every constructed Reader has a
\* supported dataType and each of its five methods is the one of that type.
C16_UnsupportedFormatRejected ==
    /\ dType \notin dataTypeList
          => /\ last.op = "init" /\ last.kind = "raise"
             /\ ptr = "None" /\ ~fd
             /\ recordIndex = NoneIndex
    /\ Constructed
          => /\ dType \in dataTypeList
             /\ last.op \in Methods => dType \in last.codecs

\* construction was asked for an unsupported dataType and raised
C16_Witness ==
    /\ dType = "hdf5"
    /\ last.op = "init" /\ last.kind = "raise"


\* the records from offset p on that a read does not skip: those later than
\* eTime or not earlier than sTime
Stops(p) == {o \in RecStarts(p, FileSize(file)) :
                TimeAt(o) > eTime \/ TimeAt(o) >= sTime}

\* the last call was a read on an open dmap file that ended the stream at a
\* record later than eTime
EndedByTime ==
    /\ last.op = "read" /\ last.kind = "none"
    /\ dType = "dmap" /\ IsOpen /\ Bounded
    /\ IsRecStart(file, last.pos0)
    /\ Stops(last.pos0) # {}
    /\ TimeAt(Min(Stops(last.pos0))) > eTime

\* C17 as claimed: when read ends the stream at a record later than eTime,
\* the file is left at the offset at which that record starts.
C17_CursorAtFailingRecord ==
    EndedByTime => pos = Min(Stops(last.pos0))

\* C17: when read ends the stream at a record later than eTime, the file
\* is left right after that record: the record has been consumed.
C17_CursorAfterFailingRecord ==
    EndedByTime => pos = Min(Stops(last.pos0)) + RecLen

\* a read skipped a record and ended the stream at the next one
C17_Witness ==
    /\ EndedByTime
    /\ Min(Stops(last.pos0)) > last.pos0
    /\ pos = FileSize(file)


\* C18: a forced offsetSeek on an open Reader does not raise, leaves the
\* file at the offset asked for, whatever that offset and whether or not an
\* index is stored, and leaves recordIndex and scanStartIndex as they were.
C18_ForcedSeek ==
    [][ (IsOpen /\ last'.op = "offsetSeek" /\ last'.force)
          => /\ last'.kind # "raise"
             /\ pos' = last'.off
             /\ dType = "dmap" => (last'.kind = "ret" /\ last'.val = last'.off)
             /\ recordIndex' = recordIndex
             /\ scanStartIndex' = scanStartIndex ]_vars

\* a forced seek, with no index stored, moved the file into the middle of a
\* record
C18_Witness ==
    /\ IsOpen /\ last.op = "offsetSeek" /\ last.force
    /\ recordIndex = NoneIndex /\ scanStartIndex = NoneIndex
    /\ last.off % RecLen # 0
    /\ last.pos0 # last.off
    /\ pos = last.off


\* what an explicit createIndex call does on the Reader: the method bound
\* under its dataType
createIndexOf(f, p, g, rI, sI) ==
    IF dType = "dmap" THEN createIndexDmap(f, p, g, rI, sI)
    ELSE createIndexJson(f, p, rI, sI)

\* C19: a non-forced offsetSeek that returns, on an open Reader with no
\* index stored, stores the two maps an explicit createIndex call would
\* have stored and tests the offset against that recordIndex; with an index
\* stored it leaves both maps as they are.
C19_SeekBuildsIndex ==
    [][ (IsOpen /\ last'.op = "offsetSeek" /\ ~last'.force
                /\ last'.kind # "raise")
          => IF recordIndex = NoneIndex
             THEN \E g \in Garbage(file, rewindDmapTarget) :
                    LET c == createIndexOf(file, pos, g,
                                           recordIndex, scanStartIndex)
                    IN  /\ c.kind = "ret"
                        /\ recordIndex' = c.recordIndex
                        /\ scanStartIndex' = c.scanStartIndex
                        /\ last'.off \in Range(c.recordIndex)
                              => pos' = last'.off
             ELSE /\ recordIndex' = recordIndex
                  /\ scanStartIndex' = scanStartIndex ]_vars


\* C20: a stored recordIndex has one entry for each timestamp that records
\* of the window carry, and maps it to the offset of the last record of the
\* file that carries it.
C20_LastWriteWins ==
    recordIndex # NoneIndex =>
       /\ \A o \in InWindow : TimeAt(o) \in DOMAIN recordIndex
       /\ \A t \in DOMAIN recordIndex :
             /\ \E o \in InWindow : TimeAt(o) = t
             /\ \A o \in InWindow : TimeAt(o) = t => o <= recordIndex[t]

\* an index over a file whose two records of the window carry one timestamp
C20_Witness ==
    /\ recordIndex # NoneIndex
    /\ InWindow = {0, RecLen}
    /\ TimeAt(0) = TimeAt(RecLen)
    /\ DOMAIN recordIndex = {TimeAt(0)}
    /\ recordIndex[TimeAt(0)] = RecLen

\* ---------------------------------------------- one contract, two formats
\* The logical sequence of records of the file, whatever its encoding: the
\* i-th record starts at offset (i - 1) * RecLen.
LogicalStarts == {o \in Offsets(file) : o < FileSize(file) /\ o % RecLen = 0}

LogicalTime(o) == utcfromtimestamp(file[(o \div RecLen) + 1].time)

LogicalWindow == {o \in LogicalStarts :
                     Bounded /\ sTime <= LogicalTime(o) /\ LogicalTime(o) <= eTime}

\* the keys of the index that the records and the window determine
LogicalKeys == {LogicalTime(o) : o \in LogicalWindow}

\* the offsets a non-forced seek accepts: for each key, the last record that
\* carries it
LogicalIndexed == {o \in LogicalWindow :
                      \A q \in LogicalWindow : LogicalTime(q) = LogicalTime(o) => q <= o}

\* the records at or after offset p at which a read stops: the first one
\* that is not earlier than sTime or is later than eTime
LogicalStops(p) == {o \in LogicalStarts :
                       /\ p <= o
                       /\ LogicalTime(o) >= sTime \/ LogicalTime(o) > eTime}

\* the observable results of the last call, stated on the logical records
\* only: what read returns and when it signals the end of the stream, the
\* keys createIndex and a non-forced offsetSeek store, and which offsets a
\* seek accepts
UniformContract ==
    /\ (last.op = "read" /\ last.pos0 % RecLen = 0) =>
          IF LogicalStops(last.pos0) = {}
          THEN last.kind = "none"
          ELSE LET o == Min(LogicalStops(last.pos0))
               IN  IF o \in LogicalWindow
                   THEN last.kind = "rec" /\ last.val = o
                   ELSE last.kind = "none"
    /\ last.op = "createIndex" =>
          /\ last.kind = "ret"
          /\ DOMAIN recordIndex = LogicalKeys
    /\ (last.op = "offsetSeek" /\ ~last.force) =>
          /\ last.kind # "raise"
          /\ DOMAIN recordIndex = LogicalKeys
          /\ last.off \in LogicalIndexed => pos = last.off
    /\ (last.op = "offsetSeek" /\ last.force) =>
          /\ last.kind # "raise"
          /\ pos = last.off

\* the contract on an open dmap Reader with a window [sTime, eTime]
DmapContract ==
    (dType = "dmap" /\ IsOpen /\ Bounded) => UniformContract

\* C21: the two formats obey one contract: on an open Reader of either
\* format with a window [sTime, eTime], over the same logical records, read
\* returns the same records and signals the end of the stream at the same
\* calls, createIndex and a non-forced offsetSeek store the same index keys,
\* and offsetSeek accepts the same offsets; a json read or createIndex ends
\* normally and never raises.
C21_UniformContract ==
    (dType \in dataTypeList /\ IsOpen /\ Bounded) => UniformContract

=============================================================================
